---- MODULE Spec2Model ----
(***************************************************************************)
(* rust-launcher/src/hardcoded_paths.rs of IcedTea-Web: the build-time     *)
(* constant bank, its accessors, the ItwLibSearch parser and the           *)
(* get_libsearch override resolver.                                        *)
(***************************************************************************)
EXTENDS Naturals, Sequences, FiniteSets, TLC

VARIABLES
    bank,               \* the option_env! constants: name -> Option<&'static str>
    environ,            \* what env::var("ITW_LIBS") yields in this process
    pc,                 \* position of the caller / of get_libsearch
    itw_libs_override,  \* local of get_libsearch (line 96)
    info,               \* local of get_libsearch (line 103)
    log,                \* what logger.info has received, in order
    result,             \* Option of the mode get_libsearch returned
    trace,              \* the calls the current get_libsearch invocation made
    calls,              \* number of get_libsearch invocations started
    called,             \* name of the pure function last called directly
    arg,                \* its argument (from_str) or "" (accessors)
    ret                 \* what it returned

vars == <<bank, environ, pc, itw_libs_override, info, log, result, trace,
          calls, called, arg, ret>>

resolverVars == <<pc, itw_libs_override, info, log, result, trace, calls>>
harnessVars == <<called, arg, ret>>

-----------------------------------------------------------------------------
(* Bounds *)

\* get_libsearch invocations one process makes
MaxCalls == 2
\* constants whose injection differs from the base build (SpecAccessors)
MaxDeviations == 1
\* length of the generated parser inputs (SpecParser)
MaxLen == 4

-----------------------------------------------------------------------------
(* Option and Result values *)

None == <<"None">>
Some(v) == <<"Some", v>>
Ok(v) == <<"Ok", v>>
Err(e) == <<"Err", e>>

is_some(o) == o[1] = "Some"
is_ok(r) == r[1] = "Ok"

\* Option::unwrap_or
unwrap_or(o, default) == IF is_some(o) THEN o[2] ELSE default

-----------------------------------------------------------------------------
(* Constant bank, lines 8-20 *)

RequiredNames ==
    {"PROGRAM_NAME", "LAUNCHER_BOOTCLASSPATH", "SPLASH_PNG", "JAVA", "JRE",
     "MAIN_CLASS", "BIN_LOCATION", "NETX_JAR", "ITW_LIBS"}

OptionalNames == {"PLUGIN_JAR", "JSOBJECT_JAR", "TAGSOUP_JAR", "RHINO_JAR"}

ConstNames == RequiredNames \cup OptionalNames

PROGRAM_NAME == bank["PROGRAM_NAME"]
LAUNCHER_BOOTCLASSPATH == bank["LAUNCHER_BOOTCLASSPATH"]
SPLASH_PNG == bank["SPLASH_PNG"]
JAVA == bank["JAVA"]
JRE == bank["JRE"]
MAIN_CLASS == bank["MAIN_CLASS"]
BIN_LOCATION == bank["BIN_LOCATION"]
NETX_JAR == bank["NETX_JAR"]
PLUGIN_JAR == bank["PLUGIN_JAR"]
JSOBJECT_JAR == bank["JSOBJECT_JAR"]
TAGSOUP_JAR == bank["TAGSOUP_JAR"]
RHINO_JAR == bank["RHINO_JAR"]
ITW_LIBS == bank["ITW_LIBS"]

-----------------------------------------------------------------------------
(* Strings *)

\* str::trim, as the tests of lines 132-151 apply it to what the accessors return
WhiteSpace == {" ", "\t", "\n", "\r"}

RECURSIVE trim_start(_)
trim_start(s) ==
    IF Len(s) > 0 /\ SubSeq(s, 1, 1) \in WhiteSpace
    THEN trim_start(SubSeq(s, 2, Len(s)))
    ELSE s

RECURSIVE trim_end(_)
trim_end(s) ==
    IF Len(s) > 0 /\ SubSeq(s, Len(s), Len(s)) \in WhiteSpace
    THEN trim_end(SubSeq(s, 1, Len(s) - 1))
    ELSE s

trim(s) == trim_end(trim_start(s))

-----------------------------------------------------------------------------
(* Accessor layer, lines 23-64 *)

get_jre == unwrap_or(JRE, "JRE-dev-unspecified")

\* mutant: the neighbouring constant is read
get_java_reads_jre == unwrap_or(JRE, "JAVA-dev-unspecified")

get_java == unwrap_or(JAVA, "JAVA-dev-unspecified")

\* mutant: the sentinel is not built from the constant's name
get_main_short_sentinel == unwrap_or(MAIN_CLASS, "MAIN-dev-unspecified")

get_main == unwrap_or(MAIN_CLASS, "MAIN_CLASS-dev-unspecified")

get_name == unwrap_or(PROGRAM_NAME, "PROGRAM_NAME-dev-unspecified")

get_bin == unwrap_or(BIN_LOCATION, "BIN_LOCATION-dev-unspecified")

get_splash == unwrap_or(SPLASH_PNG, "SPLASH_PNG-dev-unspecified")

get_netx == unwrap_or(NETX_JAR, "NETX_JAR-dev-unspecified")

\* mutant: an absent constant defaults to a legal token
get_itwlibsearch_default_both == unwrap_or(ITW_LIBS, "BOTH")

get_itwlibsearch == unwrap_or(ITW_LIBS, "ITW_LIBS-dev-unspecified")

get_bootcp == unwrap_or(LAUNCHER_BOOTCLASSPATH, "LAUNCHER_BOOTCLASSPATH-dev-unspecified")

get_plugin == PLUGIN_JAR

get_jsobject == JSOBJECT_JAR

\* mutant: an absent optional constant is replaced by a sentinel
get_tagsoup_sentinel == Some(unwrap_or(TAGSOUP_JAR, "TAGSOUP_JAR-dev-unspecified"))

get_tagsoup == TAGSOUP_JAR

get_rhino == RHINO_JAR

-----------------------------------------------------------------------------
(* enum ItwLibSearch, struct ParseItwLibSearch, impl FromStr; lines 67-93 *)

BUNDLED == "ItwLibSearch::BUNDLED"
DISTRIBUTION == "ItwLibSearch::DISTRIBUTION"
BOTH == "ItwLibSearch::BOTH"

ItwLibSearch == {BUNDLED, DISTRIBUTION, BOTH}

ParseItwLibSearch == "ParseItwLibSearch"

\* mutant: the input is trimmed before it is compared
from_str_trimmed(sstr) ==
    IF trim(sstr) = "BOTH" THEN Ok(BOTH)
    ELSE IF trim(sstr) = "BUNDLED" THEN Ok(BUNDLED)
    ELSE IF trim(sstr) = "DISTRIBUTION" THEN Ok(DISTRIBUTION)
    ELSE Err(ParseItwLibSearch)

from_str(sstr) ==
    IF sstr = "BOTH" THEN Ok(BOTH)
    ELSE IF sstr = "BUNDLED" THEN Ok(BUNDLED)
    ELSE IF sstr = "DISTRIBUTION" THEN Ok(DISTRIBUTION)
    ELSE Err(ParseItwLibSearch)

-----------------------------------------------------------------------------
(* get_libsearch, lines 95-120 *)

\* std::env::var: Ok(value), or Err when the variable is unset or not unicode
NotPresent == "VarError::NotPresent"
NotUnicode == "VarError::NotUnicode"

env_var == environ

\* mutant: the diagnostic does not name the value
format_info_no_value(v) ==
    "ITW-LIBS provided, but have invalid value. Use BUNDLED, DISTRIBUTION or BOTH"

\* the write! of line 104
format_info(v) ==
    "ITW-LIBS provided, but have invalid value of " \o v
        \o ". Use BUNDLED, DISTRIBUTION or BOTH"

PanicMessage == "itw-lib search out of range"

\* line 95-96: the call is entered and the environment is read
ReadOverride ==
    /\ pc = "idle"
    /\ calls < MaxCalls
    /\ calls' = calls + 1
    /\ itw_libs_override' = env_var
    /\ trace' = <<>>
    /\ result' = None
    /\ info' = ""
    /\ pc' = "match_override"
    /\ UNCHANGED <<bank, environ, log, harnessVars>>

\* mutant: a valid override falls through to the build-time constant
OverrideValid_falls_through ==
    /\ pc = "match_override"
    /\ is_ok(itw_libs_override)
    /\ is_ok(from_str(itw_libs_override[2]))
    /\ trace' = Append(trace, <<"from_str", "override", itw_libs_override[2]>>)
    /\ pc' = "fallback"
    /\ UNCHANGED <<bank, environ, itw_libs_override, info, log, result, calls,
                   harnessVars>>

\* lines 98-101: the override parses, the mode is returned at once
OverrideValid ==
    /\ pc = "match_override"
    /\ is_ok(itw_libs_override)
    /\ is_ok(from_str(itw_libs_override[2]))
    /\ trace' = Append(trace, <<"from_str", "override", itw_libs_override[2]>>)
    /\ result' = Some(from_str(itw_libs_override[2])[2])
    /\ pc' = "returned"
    /\ UNCHANGED <<bank, environ, itw_libs_override, info, log, calls, harnessVars>>

\* mutant: an invalid override is dropped without a diagnostic
OverrideInvalid_silent ==
    /\ pc = "match_override"
    /\ is_ok(itw_libs_override)
    /\ ~is_ok(from_str(itw_libs_override[2]))
    /\ trace' = Append(trace, <<"from_str", "override", itw_libs_override[2]>>)
    /\ pc' = "fallback"
    /\ UNCHANGED <<bank, environ, itw_libs_override, info, log, result, calls,
                   harnessVars>>

\* lines 102-104: the override does not parse, the diagnostic is formatted
OverrideInvalid ==
    /\ pc = "match_override"
    /\ is_ok(itw_libs_override)
    /\ ~is_ok(from_str(itw_libs_override[2]))
    /\ trace' = Append(trace, <<"from_str", "override", itw_libs_override[2]>>)
    /\ info' = format_info(itw_libs_override[2])
    /\ pc' = "log"
    /\ UNCHANGED <<bank, environ, itw_libs_override, log, result, calls, harnessVars>>

\* line 105: logger.info(&info)
LogInfo ==
    /\ pc = "log"
    /\ log' = Append(log, info)
    /\ trace' = Append(trace, <<"logger.info", info>>)
    /\ pc' = "fallback"
    /\ UNCHANGED <<bank, environ, itw_libs_override, info, result, calls, harnessVars>>

\* mutant: a missing override is reported like an invalid one
OverrideAbsent_logs ==
    /\ pc = "match_override"
    /\ ~is_ok(itw_libs_override)
    /\ info' = format_info("")
    /\ pc' = "log"
    /\ UNCHANGED <<bank, environ, itw_libs_override, log, result, trace, calls,
                   harnessVars>>

\* lines 108-110: env::var failed, no op
OverrideAbsent ==
    /\ pc = "match_override"
    /\ ~is_ok(itw_libs_override)
    /\ pc' = "fallback"
    /\ UNCHANGED <<bank, environ, itw_libs_override, info, log, result, trace,
                   calls, harnessVars>>

\* lines 112-115: the build-time string parses
FallbackValid ==
    /\ pc = "fallback"
    /\ is_ok(from_str(get_itwlibsearch))
    /\ trace' = Append(trace, <<"from_str", "build", get_itwlibsearch>>)
    /\ result' = Some(from_str(get_itwlibsearch)[2])
    /\ pc' = "returned"
    /\ UNCHANGED <<bank, environ, itw_libs_override, info, log, calls, harnessVars>>

\* mutant: an invalid build-time string yields a default mode
FallbackPanic_defaults ==
    /\ pc = "fallback"
    /\ ~is_ok(from_str(get_itwlibsearch))
    /\ trace' = Append(trace, <<"from_str", "build", get_itwlibsearch>>)
    /\ result' = Some(BOTH)
    /\ pc' = "returned"
    /\ UNCHANGED <<bank, environ, itw_libs_override, info, log, calls, harnessVars>>

\* lines 116-118: the build-time string does not parse, panic!
FallbackPanic ==
    /\ pc = "fallback"
    /\ ~is_ok(from_str(get_itwlibsearch))
    /\ trace' = Append(Append(trace, <<"from_str", "build", get_itwlibsearch>>),
                       <<"panic", PanicMessage>>)
    /\ pc' = "panicked"
    /\ UNCHANGED <<bank, environ, itw_libs_override, info, log, result, calls,
                   harnessVars>>

\* the caller has the mode and goes on; it may ask again
Continue ==
    /\ pc = "returned"
    /\ pc' = "idle"
    /\ UNCHANGED <<bank, environ, itw_libs_override, info, log, result, trace,
                   calls, harnessVars>>

-----------------------------------------------------------------------------
(* The builds and environments the model starts from *)

LegalTokens == {"BOTH", "BUNDLED", "DISTRIBUTION"}

Sentinel(name) == name \o "-dev-unspecified"

\* strings a build may inject for constant name
InjectedStrings(name) ==
    LegalTokens \cup
    {"", "  ", " BOTH", "bundled", Sentinel(name), "/usr/share/icedtea-web/" \o name}

\* development build: nothing injected
DevBank == [n \in ConstNames |-> None]

\* production build: everything injected, ITW_LIBS with a legal token
ProdBank ==
    [n \in ConstNames |->
        IF n = "ITW_LIBS" THEN Some("DISTRIBUTION")
        ELSE Some("/usr/share/icedtea-web/" \o n)]

OptionOf(S) == {None} \cup {Some(v) : v \in S}

\* values of ITW_LIBS in the process environment
OverrideStrings == LegalTokens \cup {"", "MAYBE", " BOTH", "bundled", "ITW_LIBS-dev-unspecified"}

Environs == {Err(NotPresent), Err(NotUnicode)} \cup {Ok(s) : s \in OverrideStrings}

\* banks of the resolver runs: a base build with any ITW_LIBS
ResolverBanks ==
    {[base EXCEPT !["ITW_LIBS"] = v] :
        base \in {DevBank, ProdBank}, v \in OptionOf(InjectedStrings("ITW_LIBS"))}

Init ==
    /\ bank \in ResolverBanks
    /\ environ \in Environs
    /\ pc = "idle"
    /\ itw_libs_override = Err(NotPresent)
    /\ info = ""
    /\ log = <<>>
    /\ result = None
    /\ trace = <<>>
    /\ calls = 0
    /\ called = ""
    /\ arg = ""
    /\ ret = None

Next ==
    \/ ReadOverride
    \/ OverrideValid
    \/ OverrideInvalid
    \/ LogInfo
    \/ OverrideAbsent
    \/ FallbackValid
    \/ FallbackPanic
    \/ Continue

Spec == Init /\ [][Next]_vars

-----------------------------------------------------------------------------
(* Direct calls of the accessors, as the tests of lines 130-157 make them *)

Call(name, value) ==
    /\ pc = "idle"
    /\ called' = name
    /\ arg' = ""
    /\ ret' = value
    /\ UNCHANGED <<bank, environ, resolverVars>>

Call_get_jre == Call("get_jre", get_jre)
Call_get_java == Call("get_java", get_java)
Call_get_main == Call("get_main", get_main)
Call_get_name == Call("get_name", get_name)
Call_get_bin == Call("get_bin", get_bin)
Call_get_splash == Call("get_splash", get_splash)
Call_get_netx == Call("get_netx", get_netx)
Call_get_itwlibsearch == Call("get_itwlibsearch", get_itwlibsearch)
Call_get_bootcp == Call("get_bootcp", get_bootcp)
Call_get_plugin == Call("get_plugin", get_plugin)
Call_get_jsobject == Call("get_jsobject", get_jsobject)
Call_get_tagsoup == Call("get_tagsoup", get_tagsoup)
Call_get_rhino == Call("get_rhino", get_rhino)

\* banks that differ from a base build in at most k constants
RECURSIVE BanksWithin(_)
BanksWithin(k) ==
    IF k = 0 THEN {DevBank, ProdBank}
    ELSE LET B == BanksWithin(k - 1)
         IN  B \cup UNION {{[b EXCEPT ![n] = v] : v \in OptionOf(InjectedStrings(n))} :
                              <<b, n>> \in B \X ConstNames}

AccessorBanks == BanksWithin(MaxDeviations)

InitAccessors ==
    /\ bank \in AccessorBanks
    /\ environ = Err(NotPresent)
    /\ pc = "idle"
    /\ itw_libs_override = Err(NotPresent)
    /\ info = ""
    /\ log = <<>>
    /\ result = None
    /\ trace = <<>>
    /\ calls = 0
    /\ called = ""
    /\ arg = ""
    /\ ret = None

NextAccessors ==
    \/ Call_get_jre
    \/ Call_get_java
    \/ Call_get_main
    \/ Call_get_name
    \/ Call_get_bin
    \/ Call_get_splash
    \/ Call_get_netx
    \/ Call_get_itwlibsearch
    \/ Call_get_bootcp
    \/ Call_get_plugin
    \/ Call_get_jsobject
    \/ Call_get_tagsoup
    \/ Call_get_rhino

SpecAccessors == InitAccessors /\ [][NextAccessors]_vars

-----------------------------------------------------------------------------
(* Direct calls of ItwLibSearch::from_str, as the test of lines 160-165 *)

Alphabet == {"B", "O", "T", "H", "b", " "}

RECURSIVE StringsUpTo(_)
StringsUpTo(k) ==
    IF k = 0 THEN {""}
    ELSE LET S == StringsUpTo(k - 1)
         IN  S \cup {s \o c : s \in S, c \in Alphabet}

ParserInputs ==
    StringsUpTo(MaxLen) \cup OverrideStrings \cup
    {"both", "Both", "BOTH ", "\tBOTH", "BOTH\n", "BOTHBUNDLED", "BOT",
     "bundled", "Bundled", " BUNDLED", "BUNDLED ", "BUNDLE", "BUNDLEDD",
     "distribution", " DISTRIBUTION", "DISTRIBUTION ", "DISTRIBUTIONS",
     "ItwLibSearch::BOTH", "ALL", "NONE"}

\* the input is drawn at the start; the call parses it
Call_from_str ==
    /\ pc = "idle"
    /\ called = ""
    /\ called' = "from_str"
    /\ ret' = from_str(arg)
    /\ UNCHANGED <<bank, environ, resolverVars, arg>>

InitParser ==
    /\ bank \in {DevBank, ProdBank}
    /\ environ = Err(NotPresent)
    /\ pc = "idle"
    /\ itw_libs_override = Err(NotPresent)
    /\ info = ""
    /\ log = <<>>
    /\ result = None
    /\ trace = <<>>
    /\ calls = 0
    /\ called = ""
    /\ arg \in ParserInputs
    /\ ret = None

NextParser == Call_from_str

SpecParser == InitParser /\ [][NextParser]_vars

-----------------------------------------------------------------------------
(* What the properties are stated with *)

\* needle occurs in hay
Contains(hay, needle) ==
    \E i \in 1..(Len(hay) - Len(needle) + 1) :
        SubSeq(hay, i, i + Len(needle) - 1) = needle

\* the mode a legal token stands for
ModeOf(token) ==
    CASE token = "BUNDLED" -> BUNDLED
      [] token = "DISTRIBUTION" -> DISTRIBUTION
      [] token = "BOTH" -> BOTH

OverridePresent == environ[1] = "Ok"
OverrideLegal == OverridePresent /\ environ[2] \in LegalTokens
OverrideIllegal == OverridePresent /\ environ[2] \notin LegalTokens

\* the build-time library-search string: the constant, or its sentinel
BuildString ==
    IF bank["ITW_LIBS"] = None THEN "ITW_LIBS-dev-unspecified"
    ELSE bank["ITW_LIBS"][2]

BuildLegal == bank["ITW_LIBS"] # None /\ bank["ITW_LIBS"][2] \in LegalTokens

\* events of one kind in the trace of the current invocation
Events(kind) == {i \in DOMAIN trace : trace[i][1] = kind}
BuildParses == {i \in Events("from_str") : trace[i][2] = "build"}

Finished == pc \in {"returned", "panicked"}

-----------------------------------------------------------------------------
(* get_libsearch *)

\* C1: with a legal token in the environment, whatever the build-time
\* constant, get_libsearch returns the mode of the environment value, never
\* parses the build-time string, never panics and never calls the logger.
C1_OverridePrecedence ==
    OverrideLegal =>
        /\ pc \notin {"log", "fallback", "panicked"}
        /\ log = <<>>
        /\ Events("logger.info") = {} /\ Events("panic") = {} /\ BuildParses = {}
        /\ pc = "returned" =>
            /\ result = Some(ModeOf(environ[2]))
            /\ trace = << <<"from_str", "override", environ[2]>> >>

C1_Witness ==
    /\ pc = "returned"
    /\ environ = Ok("BUNDLED")
    /\ bank["ITW_LIBS"] = Some("bundled")
    /\ result = Some(BUNDLED)

\* C2: with an illegal value in the environment and a legal build-time
\* constant, get_libsearch returns the mode of the build-time constant and
\* the logger is called exactly once, with a message holding the value.
C2_OverrideFallback ==
    (OverrideIllegal /\ BuildLegal) =>
        /\ pc # "panicked"
        /\ pc = "returned" =>
            /\ result = Some(ModeOf(bank["ITW_LIBS"][2]))
            /\ Cardinality(Events("logger.info")) = 1
            /\ Len(log) = calls
            /\ Contains(log[Len(log)], environ[2])
            /\ \A i \in Events("logger.info") : trace[i][2] = log[Len(log)]

C2_Witness ==
    /\ pc = "returned"
    /\ environ = Ok("MAYBE")
    /\ bank["ITW_LIBS"] = Some("DISTRIBUTION")
    /\ result = Some(DISTRIBUTION)
    /\ Len(log) = 1

\* C3: with ITW_LIBS not set in the environment and a build-time string
\* (constant or sentinel) that is no legal token, get_libsearch panics: it
\* never returns a mode, and at step 2 nothing but the panic can happen.
C3_FatalPath ==
    (environ = Err(NotPresent) /\ BuildString \notin LegalTokens) =>
        /\ pc # "returned"
        /\ result = None
        /\ pc = "fallback" => (ENABLED FallbackPanic /\ ~ENABLED FallbackValid)
        /\ pc = "panicked" =>
            trace = << <<"from_str", "build", BuildString>>,
                       <<"panic", PanicMessage>> >>

C3_Witness ==
    /\ pc = "panicked"
    /\ environ = Err(NotPresent)
    /\ bank["ITW_LIBS"] = None
    /\ log = <<>>

\* C5: one invocation of get_libsearch calls the logger exactly once when
\* the override is present and is no legal token, and never otherwise
\* (override absent, unreadable or legal), whatever the build-time constant.
C5_LoggerDiscipline ==
    LET expected == IF OverrideIllegal THEN 1 ELSE 0
    IN  /\ Cardinality(Events("logger.info")) <= expected
        /\ Len(log) <= calls * expected
        /\ (Finished \/ pc = "fallback") =>
            /\ Cardinality(Events("logger.info")) = expected
            /\ Len(log) = calls * expected

C5_Witness ==
    /\ pc = "returned"
    /\ calls = MaxCalls
    /\ environ = Ok("")
    /\ Len(log) = MaxCalls

\* C10: with an illegal value in the environment and an illegal build-time
\* string, the logger is called exactly once, with the environment value,
\* before the panic; the step that panics writes nothing, and no step
\* returns a mode.
C10_LogBeforePanic ==
    [][(OverrideIllegal /\ BuildString \notin LegalTokens) =>
        /\ pc' # "returned"
        /\ result' = None
        /\ (pc' = "panicked" /\ pc # "panicked") =>
            /\ pc = "fallback"
            /\ Len(log) = 1
            /\ Contains(log[1], environ[2])
            /\ log' = log
            /\ Events("logger.info") = {2}
        /\ pc = "log" => (pc' = "fallback" /\ log' = Append(log, info))]_vars

C10_Witness ==
    /\ pc = "panicked"
    /\ environ = Ok("MAYBE")
    /\ bank["ITW_LIBS"] = None
    /\ Len(log) = 1
    /\ Len(trace) = 4

-----------------------------------------------------------------------------
(* ItwLibSearch::from_str *)

\* C4: from_str yields Ok(BOTH) exactly for "BOTH", Ok(BUNDLED) exactly for
\* "BUNDLED", Ok(DISTRIBUTION) exactly for "DISTRIBUTION", and
\* Err(ParseItwLibSearch) for every other string: the empty string,
\* lower-case and whitespace-padded variants included.
C4_ModeParser ==
    called = "from_str" =>
        /\ ret = Ok(BOTH) <=> arg = "BOTH"
        /\ ret = Ok(BUNDLED) <=> arg = "BUNDLED"
        /\ ret = Ok(DISTRIBUTION) <=> arg = "DISTRIBUTION"
        /\ ret = Err(ParseItwLibSearch) <=> arg \notin LegalTokens
        /\ (arg \in {"", "bundled", " BOTH"} \/ trim(arg) # arg)
                => ret = Err(ParseItwLibSearch)

C4_Witness ==
    /\ called = "from_str"
    /\ arg = " BOTH"
    /\ ret = Err(ParseItwLibSearch)

-----------------------------------------------------------------------------
(* Accessors *)

RequiredAccessors ==
    {"get_jre", "get_java", "get_main", "get_name", "get_bin", "get_splash",
     "get_netx", "get_bootcp", "get_itwlibsearch"}

OptionalAccessors == {"get_plugin", "get_jsobject", "get_tagsoup", "get_rhino"}

\* the constant each accessor is to read
ConstOf(accessor) ==
    CASE accessor = "get_jre" -> "JRE"
      [] accessor = "get_java" -> "JAVA"
      [] accessor = "get_main" -> "MAIN_CLASS"
      [] accessor = "get_name" -> "PROGRAM_NAME"
      [] accessor = "get_bin" -> "BIN_LOCATION"
      [] accessor = "get_splash" -> "SPLASH_PNG"
      [] accessor = "get_netx" -> "NETX_JAR"
      [] accessor = "get_itwlibsearch" -> "ITW_LIBS"
      [] accessor = "get_bootcp" -> "LAUNCHER_BOOTCLASSPATH"
      [] accessor = "get_plugin" -> "PLUGIN_JAR"
      [] accessor = "get_jsobject" -> "JSOBJECT_JAR"
      [] accessor = "get_tagsoup" -> "TAGSOUP_JAR"
      [] accessor = "get_rhino" -> "RHINO_JAR"

\* every required constant was injected
ProductionBuild == \A n \in RequiredNames : bank[n] # None

\* no required constant was injected (the optional ones play no part)
DevelopmentBuild == \A n \in RequiredNames : bank[n] = None

C7_DevSentinels ==
    DevelopmentBuild =>
        /\ called \in RequiredAccessors =>
            /\ ret = ConstOf(called) \o "-dev-unspecified"
            /\ Len(ret) > 0
        /\ Cardinality({get_jre, get_java, get_main, get_name, get_bin,
                        get_splash, get_netx, get_itwlibsearch, get_bootcp}) = 9

C7_Witness ==
    /\ DevelopmentBuild
    /\ called = "get_main"
    /\ ret = "MAIN_CLASS-dev-unspecified"

\* C9: an optional-dependency getter returns Some(v) with the injected
\* value v of its own constant, and None when the constant was not
\* injected; no sentinel is put in its place.
C9_OptionalGetters ==
    called \in OptionalAccessors =>
        /\ bank[ConstOf(called)] = None => ret = None
        /\ bank[ConstOf(called)] # None =>
            (ret[1] = "Some" /\ ret[2] = bank[ConstOf(called)][2])

C9_Witness ==
    /\ called = "get_tagsoup"
    /\ bank["TAGSOUP_JAR"] = None
    /\ bank["RHINO_JAR"] # None
    /\ ret = None

-----------------------------------------------------------------------------
(* The build-time library-search string *)

====
